---- MODULE Spec2Model ----
(***************************************************************************)
(* Eagle bank: the cross-service eventual-consistency pipeline.            *)
(*                                                                         *)
(* The model covers the account service's durable store (PostgreSQL table  *)
(* accounts), the Redis read model (account:view:<n>), the idempotency     *)
(* markers (processed:txn:<id>), the Redis stream transaction.events with  *)
(* its consumer group, the Subscriber loop that runs                       *)
(* AccountCommandService.HandleTransactionEvent, the account command and   *)
(* query paths, and the transaction service's CreateTransaction.           *)
(*                                                                         *)
(* Every PostgreSQL statement and every Redis command is one atomic step;  *)
(* a handler is a sequence of such steps, and the position of each running *)
(* handler is part of the state.  Amounts are whole currency units.        *)
(* PostgreSQL answers every call; Redis answers while redisUp holds and    *)
(* fails every command otherwise (only the specifications with RedisDown   *)
(* leave redisUp).  The 72 h marker TTL does not lapse within a behaviour. *)
(* A second instance of the account service runs only in PeerSpec.         *)
(***************************************************************************)
EXTENDS Integers, Sequences, FiniteSets, TLC

(* ---------------- bounds of the model ---------------- *)

\* Longest transaction.events stream explored.
MaxEntries == 2

\* Most account.updated events explored: no UpdateAccount starts beyond it.
MaxUpdates == 1

\* Longest transaction.events stream explored next to UpdateAccount.
MaxProjected == 1

\* Longest account.events stream explored with redelivered events.
MaxAccountEntries == 3

(* ---------------- program constants ---------------- *)

\* SubscriberConfig.BatchSize default (Count of XREADGROUP).
BatchSize == 10

AccountNumbers == {"01000001", "01000002"}

UserIDs == {"usr-1", "usr-2"}

\* The users who open accounts.
Owners == {"usr-1"}

\* The zero value of a Go string: what a field that JSON does not carry decodes to.
NoUser == ""

\* (name, accountType) pairs an account command may carry.
Profiles == {[name |-> "Current", accountType |-> "personal"],
             [name |-> "Savings", accountType |-> "business"]}

\* The (name, accountType) an account is opened with.
NewProfiles == {[name |-> "Current", accountType |-> "personal"]}

\* The amounts a transaction may carry.
Amounts == {1, 2}

TxnIds == 1..MaxEntries

TransactionCreated == "transaction.created"

BalanceUpdated == "balance.updated"

AccountCreated == "account.created"

AccountUpdated == "account.updated"

AccountDeleted == "account.deleted"

VARIABLES
    numbers,        \* account numbers utils.GenerateAccountNumber goes on to produce
    accounts,       \* PostgreSQL table accounts: account number -> row
    cache,          \* Redis keys account:view:<n>: the JSON of the cached view
    txAccountCache, \* Redis keys account:<n> read by the transaction service
    processed,      \* Redis keys processed:txn:<id>
    transactions,   \* PostgreSQL table transactions (ids of the rows)
    txViews,        \* Redis transaction views (ids)
    txStream,       \* Redis stream transaction.events, in append order
    groupExists,    \* consumer group account-service-group has been created
    lastDelivered,  \* consumer group account-service-group: last-delivered id
    pending,        \* the group's pending entries list (delivered, not acked)
    accountStream,  \* Redis stream account.events, in append order
    cpc,            \* Subscriber: position in Start/readMessages/handler
    batch,          \* Subscriber: entry ids of the current batch still to process
    cacct,          \* handler local: account read by GetByAccountNumber
    newBalance,     \* handler local: newBalance
    wpc,            \* account command request: position
    wcmd,           \* account command request: the command
    wacct,          \* account command request: account read from the store
    wresp,          \* what the last account command returned ("" before the first)
    rpc,            \* account read request: position
    racct,          \* account read request: account number asked for
    rview,          \* account read request: view read from the store
    ruser,          \* account read request: the requesting user
    rresp,          \* what the last GetAccount query returned, and by which path
    users,          \* PostgreSQL table users: user id -> "none", "active", "deleted"
    userCache,      \* Redis keys user:view:<id> (the ids that have one)
    accCount,       \* Redis keys user:acc-count:<id>
    ucursor,        \* consumer group user-service-group: last-delivered id on account.events
    cancelled,      \* the context passed to Subscriber.Start has been cancelled
    stopErr,        \* what Subscriber.Start returned ("" while it has not returned)
    redisUp,        \* Redis answers commands (FALSE: every command returns an error)
    pcpc,           \* second instance's Subscriber: position ("off": not started)
    pbatch,         \* second instance's Subscriber: entry ids still to process
    pcacct,         \* second instance's handler local: account read
    pnewBalance,    \* second instance's handler local: newBalance
    applied,        \* history: successful UpdateBalance calls per transaction id
    delivered,      \* history: processMessage calls per stream entry
    result          \* history: per entry, what processMessage returned ("ok", "err"),
                    \* or the position at which the process died while handling it

vars == <<numbers, accounts, cache, txAccountCache, processed, transactions, txViews,
          txStream, groupExists, lastDelivered, pending, accountStream, cpc, batch, cacct,
          newBalance, wpc, wcmd, wacct, wresp, rpc, racct, rview, ruser, rresp,
          users, userCache, accCount, ucursor, cancelled, stopErr, redisUp,
          pcpc, pbatch, pcacct, pnewBalance,
          applied, delivered, result>>

storeVars == <<numbers, accounts, cache, txAccountCache, processed, transactions, txViews>>

groupVars == <<groupExists, lastDelivered, pending>>

consumerVars == <<cpc, batch, cacct, newBalance>>

writerVars == <<wpc, wcmd, wacct, wresp>>

readerVars == <<rpc, racct, rview, ruser, rresp>>

historyVars == <<applied, delivered, result>>

userVars == <<users, userCache, accCount, ucursor>>

lifeVars == <<cancelled, stopErr>>

\* A second instance of the account service: its Subscriber and handler.
peerVars == <<pcpc, pbatch, pcacct, pnewBalance>>

\* The state of the user service, of the Subscriber's context, of Redis and of
\* the second instance.
sideVars == <<userVars, lifeVars, redisUp, peerVars>>

(* ---------------- rows, views, events ---------------- *)

\* No row of table accounts for this account number.  Column updated_at is kept
\* as the statement that last wrote it (each writes the time of its call): "Create",
\* "Update" or "UpdateBalance".
NoRow == [exists |-> FALSE, deleted |-> FALSE, userID |-> NoUser, name |-> "",
          accountType |-> "", balance |-> 0, updatedAt |-> ""]

\* models.Account as scanned from a row.
NoAccount == [accountNumber |-> "", userID |-> NoUser, name |-> "",
              accountType |-> "", balance |-> 0]

\* No value under a Redis key.
NoEntry == [present |-> FALSE, accountNumber |-> "", userID |-> NoUser, name |-> "",
            accountType |-> "", balance |-> 0]

\* No value under a Redis key account:<n> of the transaction service.
NoTxAccount == [present |-> FALSE, accountNumber |-> "", userID |-> NoUser, balance |-> 0]

\* No GetAccount query has returned yet.
NoResponse == [from |-> "", outcome |-> "", view |-> NoAccount]

\* No account command in flight.
NoCommand == [op |-> "", accountNumber |-> "", userID |-> NoUser, name |-> "",
              accountType |-> ""]

\* SELECT ... WHERE account_number = $1 AND deleted_at IS NULL finds a row.
Visible(n) == accounts[n].exists /\ ~accounts[n].deleted

\* The row of account n as models.Account / models.AccountView (same fields).
RowToAccount(n) ==
    [accountNumber |-> n, userID |-> accounts[n].userID, name |-> accounts[n].name,
     accountType |-> accounts[n].accountType, balance |-> accounts[n].balance]

\* accountToView: copies every field.
accountToView(a) ==
    [accountNumber |-> a.accountNumber, userID |-> a.userID, name |-> a.name,
     accountType |-> a.accountType, balance |-> a.balance]

\* An entry written from the public view: UserID, tagged json:"-", is not written.
MarshalViewPublic(v) ==
    [present |-> TRUE, accountNumber |-> v.accountNumber, userID |-> NoUser, name |-> v.name,
     accountType |-> v.accountType, balance |-> v.balance]

\* CacheAccountView builds an accountCacheEntry from the view, UserID included,
\* and ViewCache.Set writes its JSON (userId is a field of it).
MarshalView(v) ==
    [present |-> TRUE, accountNumber |-> v.accountNumber, userID |-> v.userID, name |-> v.name,
     accountType |-> v.accountType, balance |-> v.balance]

\* A conversion that leaves UserID at its zero value.
UnmarshalViewPublic(e) ==
    [accountNumber |-> e.accountNumber, userID |-> NoUser, name |-> e.name,
     accountType |-> e.accountType, balance |-> e.balance]

\* ViewCache.Get decodes the accountCacheEntry and cacheEntryToView copies every
\* field of it into a models.AccountView.
UnmarshalView(e) ==
    [accountNumber |-> e.accountNumber, userID |-> e.userID, name |-> e.name,
     accountType |-> e.accountType, balance |-> e.balance]

\* ViewCache.Set under account:view:<accountNumber>.
CacheAccountView(c, v) == [c EXCEPT ![v.accountNumber] = MarshalView(v)]

\* ViewCache.Delete of account:view:<accountNumber>.
InvalidateAccountView(c, n) == [c EXCEPT ![n] = NoEntry]

\* A Redis command issued with the Subscriber's context succeeds: Redis answers
\* and the context is not cancelled (a cancelled context fails the command
\* before it is sent).
CtxRedisOk == redisUp /\ ~cancelled

\* A lookup that never finds the marker.
IsTransactionProcessedNever(t) == FALSE

\* A lookup that also consults what was applied to the store.
IsTransactionProcessedOrApplied(t) == t \in processed \/ applied[t] > 0

\* EXISTS processed:txn:<id> answered without error with a count above zero.
IsTransactionProcessed(t) == CtxRedisOk /\ t \in processed

\* SET processed:txn:<id> "1" EX 72h.
MarkTransactionProcessed(p, t) == p \cup {t}

\* A stream entry whose "event" value decodes to a transaction.created event.
TxEvent(t, n, u, amt, ty) ==
    [wellFormed |-> TRUE, type |-> TransactionCreated, transactionId |-> t,
     accountNumber |-> n, userId |-> u, amount |-> amt, txType |-> ty]

\* A stream entry that carries an event of another type.
OtherEvent ==
    [wellFormed |-> TRUE, type |-> BalanceUpdated, transactionId |-> 0,
     accountNumber |-> "", userId |-> NoUser, amount |-> 0, txType |-> ""]

\* A stream entry without a decodable "event" value.
BadEntry ==
    [wellFormed |-> FALSE, type |-> "", transactionId |-> 0,
     accountNumber |-> "", userId |-> NoUser, amount |-> 0, txType |-> ""]

\* An entry of account.events.
AccountEvent(ty, n, u) == [type |-> ty, accountNumber |-> n, userID |-> u]

\* Publisher.Publish: XADD appends one entry to the stream.
Publish(stream, e) == Append(stream, e)

\* The entries XREADGROUP ">" hands out: those after the group's last-delivered id.
NewEntries ==
    LET hi == IF Len(txStream) < lastDelivered + BatchSize
              THEN Len(txStream) ELSE lastDelivered + BatchSize
    IN  [i \in 1..(hi - lastDelivered) |-> lastDelivered + i]

\* An XACK that leaves the entry pending.
XAckLost(p, id) == p

\* XACK removes the id from the pending entries list.
XAck(p, id) == p \ {id}

\* The state after construction, but for the account numbers to come.
InitStores ==
    /\ accounts = [n \in AccountNumbers |-> NoRow]
    /\ cache = [n \in AccountNumbers |-> NoEntry]
    /\ txAccountCache = [n \in AccountNumbers |-> NoTxAccount]
    /\ processed = {}
    /\ transactions = {}
    /\ txViews = {}
    /\ txStream = <<>>
    /\ groupExists = FALSE
    /\ lastDelivered = 0
    /\ pending = {}
    /\ accountStream = <<>>
    /\ cpc = "start"
    /\ batch = <<>>
    /\ cacct = NoAccount
    /\ newBalance = 0
    /\ wpc = "idle"
    /\ wcmd = NoCommand
    /\ wacct = NoAccount
    /\ wresp = ""
    /\ rpc = "idle"
    /\ racct = ""
    /\ rview = NoAccount
    /\ ruser = NoUser
    /\ rresp = NoResponse
    /\ users = [u \in UserIDs |-> "none"]
    /\ userCache = {}
    /\ accCount = [u \in UserIDs |-> 0]
    /\ ucursor = 0
    /\ cancelled = FALSE
    /\ stopErr = ""
    /\ redisUp = TRUE
    /\ pcpc = "off"
    /\ pbatch = <<>>
    /\ pcacct = NoAccount
    /\ pnewBalance = 0
    /\ applied = [t \in TxnIds |-> 0]
    /\ delivered = [i \in 1..MaxEntries |-> 0]
    /\ result = [i \in 1..MaxEntries |-> "none"]

\* One account is opened in the behaviours explored.
Init ==
    /\ numbers = {"01000001"}
    /\ InitStores

(* ---------------- producers of transaction.events ---------------- *)

\* Transaction ids not yet carried by any entry (utils.GenerateID is fresh).
FreshTxnIds == {t \in TxnIds : \A i \in 1..Len(txStream) : txStream[i].transactionId # t}

\* Publisher.Publish(TransactionEventsStream, TransactionCreated, data) for a new
\* transaction: one entry appended, payload drawn from the bounded sets.
PublishTransactionCreated ==
    /\ Len(txStream) < MaxEntries
    /\ FreshTxnIds # {}
    /\ \E n \in AccountNumbers, amt \in Amounts, ty \in {"deposit", "withdrawal"} :
          LET t == CHOOSE x \in FreshTxnIds : \A y \in FreshTxnIds : x <= y
              \* data.UserID is carried by the event and never read by the handler
              u == IF accounts[n].exists THEN accounts[n].userID ELSE NoUser
          IN  txStream' = Publish(txStream, TxEvent(t, n, u, amt, ty))
    /\ UNCHANGED <<storeVars, groupVars, accountStream, consumerVars, writerVars,
                   readerVars, sideVars, historyVars>>

\* At-least-once append: the XADD of an event already in the stream is repeated,
\* so a second entry carries the same event.
PublishDuplicate ==
    /\ Len(txStream) < MaxEntries
    /\ \E i \in 1..Len(txStream) :
          /\ txStream[i].wellFormed
          /\ txStream[i].type = TransactionCreated
          /\ txStream' = Publish(txStream, txStream[i])
    /\ UNCHANGED <<storeVars, groupVars, accountStream, consumerVars, writerVars,
                   readerVars, sideVars, historyVars>>

\* An entry the handler has nothing to do for: an event of another type, or a
\* value that is not a decodable event.
PublishOther ==
    /\ Len(txStream) < MaxEntries
    /\ \E e \in {OtherEvent, BadEntry} : txStream' = Publish(txStream, e)
    /\ UNCHANGED <<storeVars, groupVars, accountStream, consumerVars, writerVars,
                   readerVars, sideVars, historyVars>>

(* ---------------- Subscriber and HandleTransactionEvent ---------------- *)

\* A setup that creates the group anew whether or not it exists.
XGroupCreateReset(ex, ld, pe) == [lastDelivered |-> 0, pending |-> {}]

\* XGROUP CREATE stream group "0" MKSTREAM: a new group starts at id 0 with
\* nothing pending; for an existing group Redis answers BUSYGROUP and changes
\* nothing.
XGroupCreateMkStream(ex, ld, pe) ==
    IF ex THEN [lastDelivered |-> ld, pending |-> pe]
    ELSE [lastDelivered |-> 0, pending |-> {}]

\* Subscriber.Start up to its loop: the group is created, BUSYGROUP is not an
\* error, any other error is returned.
Start ==
    /\ cpc = "start"
    /\ IF CtxRedisOk
       THEN /\ groupExists' = TRUE
            /\ lastDelivered' = XGroupCreateMkStream(groupExists, lastDelivered, pending).lastDelivered
            /\ pending' = XGroupCreateMkStream(groupExists, lastDelivered, pending).pending
            /\ cpc' = "loop"
            /\ UNCHANGED stopErr
       ELSE /\ cpc' = "stopped"
            /\ stopErr' = "failed to create consumer group"
            /\ UNCHANGED groupVars
    /\ UNCHANGED <<storeVars, txStream, accountStream, batch, cacct, newBalance,
                   writerVars, readerVars, userVars, cancelled, redisUp, historyVars,
                   peerVars>>

\* A loop that does not look at ctx.Done().
StopIgnored ==
    /\ cpc = "loop"
    /\ cancelled
    /\ UNCHANGED vars

\* The loop of Start finds ctx.Done() ready and returns ctx.Err().
Stop ==
    /\ cpc = "loop"
    /\ cancelled
    /\ cpc' = "stopped"
    /\ stopErr' = "context canceled"
    /\ UNCHANGED <<storeVars, txStream, groupVars, accountStream, batch, cacct, newBalance,
                   writerVars, readerVars, userVars, cancelled, redisUp, historyVars,
                   peerVars>>

\* A loop that returns the error of readMessages.
ReadFailedReturns ==
    /\ cpc = "loop"
    /\ ~CtxRedisOk
    /\ cpc' = "stopped"
    /\ stopErr' = "failed to read from stream"
    /\ UNCHANGED <<storeVars, txStream, groupVars, accountStream, batch, cacct, newBalance,
                   writerVars, readerVars, userVars, cancelled, redisUp, historyVars,
                   peerVars>>

\* XREADGROUP returns an error other than redis.Nil: readMessages returns it,
\* Start logs it, sleeps a second and loops.
ReadFailed ==
    /\ cpc = "loop"
    /\ ~CtxRedisOk
    /\ UNCHANGED vars

\* readMessages: XREADGROUP GROUP g c COUNT n BLOCK d STREAMS s ">".
\* With no new entry the call returns redis.Nil and the loop reads again.
ReadMessages ==
    /\ cpc = "loop"
    /\ CtxRedisOk
    /\ Len(NewEntries) > 0
    /\ batch' = NewEntries
    /\ lastDelivered' = NewEntries[Len(NewEntries)]
    /\ pending' = pending \cup {NewEntries[i] : i \in 1..Len(NewEntries)}
    /\ cpc' = "process"
    /\ UNCHANGED <<storeVars, txStream, groupExists, accountStream, cacct,
                   newBalance, writerVars, readerVars, sideVars, historyVars>>

\* The loop of readMessages moves to the next message of the batch.
NextMessage ==
    /\ batch' = Tail(batch)
    /\ cpc' = IF Tail(batch) = <<>> THEN "loop" ELSE "process"
    /\ cacct' = NoAccount
    /\ newBalance' = 0

\* A loop that acknowledges the message whatever processMessage returned.
AfterFailureAck(p, id) == p \ {id}

\* readMessages after processMessage returned an error: the failure is logged and
\* the loop continues without XACK.
AfterFailure(p, id) == p

\* processMessage returned an error.
HandlerFailed(id) ==
    /\ result' = [result EXCEPT ![id] = "err"]
    /\ pending' = AfterFailure(pending, id)
    /\ NextMessage

\* processMessage decodes the entry and calls the handler, which returns at once
\* for another event type and for a transaction already marked processed.
ProcessMessage ==
    /\ cpc = "process"
    /\ LET id == Head(batch)
           e  == txStream[id]
       IN  /\ delivered' = [delivered EXCEPT ![id] = @ + 1]
           /\ IF ~e.wellFormed
              THEN HandlerFailed(id)
              ELSE IF e.type # TransactionCreated \/ IsTransactionProcessed(e.transactionId)
              THEN /\ result' = [result EXCEPT ![id] = "ok"]
                   /\ cpc' = "ack"
                   /\ UNCHANGED <<pending, batch, cacct, newBalance>>
              ELSE /\ cpc' = "get"
                   /\ UNCHANGED <<pending, batch, cacct, newBalance, result>>
    /\ UNCHANGED <<storeVars, txStream, groupExists, lastDelivered, accountStream,
                   writerVars, readerVars, sideVars, applied>>

\* A handler that adds the amount whatever the type.
NewBalanceAdd(balance, e) == balance + e.amount

\* data.Type == "deposit" adds the amount; any other type subtracts it.
NewBalance(balance, e) ==
    IF e.txType = "deposit" THEN balance + e.amount ELSE balance - e.amount

\* A handler that goes on with the zero account when the row is not found.
GetAccountErrIgnored ==
    /\ cpc = "get"
    /\ LET id == Head(batch)
           e  == txStream[id]
       IN  /\ cacct' = IF Visible(e.accountNumber) THEN RowToAccount(e.accountNumber)
                       ELSE [NoAccount EXCEPT !.accountNumber = e.accountNumber]
           /\ newBalance' = NewBalance(accounts[e.accountNumber].balance, e)
           /\ cpc' = "update"
           /\ UNCHANGED <<pending, batch, result>>
    /\ UNCHANGED <<storeVars, txStream, groupExists, lastDelivered, accountStream,
                   writerVars, readerVars, sideVars, applied, delivered>>

\* writeRepo.GetByAccountNumber, then the new balance is computed.
GetAccountForUpdate ==
    /\ cpc = "get"
    /\ LET id == Head(batch)
           e  == txStream[id]
       IN  IF ~Visible(e.accountNumber)
           THEN HandlerFailed(id)
           ELSE /\ cacct' = RowToAccount(e.accountNumber)
                /\ newBalance' = NewBalance(accounts[e.accountNumber].balance, e)
                /\ cpc' = "update"
                /\ UNCHANGED <<pending, batch, result>>
    /\ UNCHANGED <<storeVars, txStream, groupExists, lastDelivered, accountStream,
                   writerVars, readerVars, sideVars, applied, delivered>>

\* A table without CONSTRAINT balance_positive.
UpdateBalanceUnchecked(n, b) == Visible(n)

\* UPDATE accounts SET balance = $2 WHERE account_number = $1 AND deleted_at IS NULL
\* succeeds: a row is affected and CONSTRAINT balance_positive CHECK (balance >= 0) holds.
UpdateBalanceOk(n, b) == Visible(n) /\ b >= 0

\* An UPDATE whose WHERE clause does not name the account.
SetBalanceAll(accts, n, b) ==
    [m \in AccountNumbers |->
        IF accts[m].exists /\ ~accts[m].deleted THEN [accts[m] EXCEPT !.balance = b, !.updatedAt = "UpdateBalance"]
        ELSE accts[m]]

\* The rows after UPDATE accounts SET balance = $2, updated_at = NOW()
\* WHERE account_number = $1.
SetBalance(accts, n, b) == [accts EXCEPT ![n].balance = b, ![n].updatedAt = "UpdateBalance"]

\* A handler that goes on to the marker whatever UpdateBalance returned.
UpdateBalanceErrIgnored ==
    /\ cpc = "update"
    /\ LET id == Head(batch)
           e  == txStream[id]
       IN  IF ~UpdateBalanceOk(e.accountNumber, newBalance)
           THEN UNCHANGED <<accounts, applied>>
           ELSE /\ accounts' = SetBalance(accounts, e.accountNumber, newBalance)
                /\ applied' = [applied EXCEPT ![e.transactionId] = @ + 1]
    /\ cpc' = "mark"
    /\ UNCHANGED <<pending, batch, cacct, newBalance, result>>
    /\ UNCHANGED <<numbers, cache, txAccountCache, processed, transactions, txViews,
                   txStream, groupExists, lastDelivered, accountStream, writerVars,
                   readerVars, sideVars, delivered>>

\* writeRepo.UpdateBalance.
UpdateBalance ==
    /\ cpc = "update"
    /\ LET id == Head(batch)
           e  == txStream[id]
       IN  IF ~UpdateBalanceOk(e.accountNumber, newBalance)
           THEN /\ HandlerFailed(id)
                /\ UNCHANGED <<accounts, applied>>
           ELSE /\ accounts' = SetBalance(accounts, e.accountNumber, newBalance)
                /\ applied' = [applied EXCEPT ![e.transactionId] = @ + 1]
                /\ cpc' = "mark"
                /\ UNCHANGED <<pending, batch, cacct, newBalance, result>>
    /\ UNCHANGED <<numbers, cache, txAccountCache, processed, transactions, txViews,
                   txStream, groupExists, lastDelivered, accountStream, writerVars,
                   readerVars, sideVars, delivered>>

\* readRepo.MarkTransactionProcessed.
MarkProcessed ==
    /\ cpc = "mark"
    /\ processed' = IF CtxRedisOk
                    THEN MarkTransactionProcessed(processed, txStream[Head(batch)].transactionId)
                    ELSE processed
    /\ cpc' = "cache"
    /\ UNCHANGED <<numbers, accounts, cache, txAccountCache, transactions, txViews,
                   txStream, groupVars, accountStream, batch, cacct, newBalance,
                   writerVars, readerVars, sideVars, historyVars>>

\* account.Balance = newBalance; readRepo.CacheAccountView(accountToView(account)).
RefreshCache ==
    /\ cpc = "cache"
    /\ cache' = IF CtxRedisOk
               THEN CacheAccountView(cache, accountToView([cacct EXCEPT !.balance = newBalance]))
               ELSE cache
    /\ cpc' = "publish"
    /\ UNCHANGED <<numbers, accounts, txAccountCache, processed, transactions, txViews,
                   txStream, groupVars, accountStream, batch, cacct, newBalance,
                   writerVars, readerVars, sideVars, historyVars>>

\* publisher.Publish(AccountEventsStream, BalanceUpdated, ...); the handler returns nil.
PublishBalanceUpdated ==
    /\ cpc = "publish"
    /\ accountStream' = IF CtxRedisOk
                       THEN Publish(accountStream,
                                    AccountEvent(BalanceUpdated,
                                                 txStream[Head(batch)].accountNumber, NoUser))
                       ELSE accountStream
    /\ result' = [result EXCEPT ![Head(batch)] = "ok"]
    /\ cpc' = "ack"
    /\ UNCHANGED <<storeVars, txStream, groupVars, batch, cacct, newBalance, writerVars,
                   readerVars, sideVars, applied, delivered>>

\* readMessages acknowledges the message whose processMessage returned nil; an
\* XACK error is logged.
AckMessage ==
    /\ cpc = "ack"
    /\ pending' = IF CtxRedisOk THEN XAck(pending, Head(batch)) ELSE pending
    /\ NextMessage
    /\ UNCHANGED <<storeVars, txStream, groupExists, lastDelivered, accountStream,
                   writerVars, readerVars, sideVars, historyVars>>

\* The account service process dies while it handles a message (its position is
\* kept in the history) and is started again.
Crash ==
    /\ cpc \in {"process", "get", "update", "mark", "cache", "publish", "ack"}
    /\ result' = [result EXCEPT ![Head(batch)] = cpc]
    /\ cpc' = "start"
    /\ batch' = <<>>
    /\ cacct' = NoAccount
    /\ newBalance' = 0
    /\ UNCHANGED <<storeVars, txStream, groupVars, accountStream, writerVars,
                   readerVars, sideVars, applied, delivered>>

Consumer ==
    \/ Start
    \/ ReadMessages
    \/ ProcessMessage
    \/ GetAccountForUpdate
    \/ UpdateBalance
    \/ MarkProcessed
    \/ RefreshCache
    \/ PublishBalanceUpdated
    \/ AckMessage


(* ---------------- a second instance of the account service ---------------- *)

\* What a step of the second instance leaves alone, its own state apart.
peerFrame == <<numbers, txAccountCache, transactions, txViews, txStream, consumerVars,
               writerVars, readerVars, userVars, lifeVars, redisUp>>

\* The second instance is started: Subscriber.Start with the same group.  Its
\* context is never cancelled.
PeerStart ==
    /\ pcpc = "off"
    /\ redisUp
    /\ LET g == XGroupCreateMkStream(groupExists, lastDelivered, pending)
       IN  /\ groupExists' = TRUE
           /\ lastDelivered' = g.lastDelivered
           /\ pending' = g.pending
    /\ pcpc' = "loop"
    /\ UNCHANGED <<peerFrame, accounts, cache, processed, accountStream, pbatch, pcacct,
                   pnewBalance, historyVars>>

\* readMessages of the second instance: XREADGROUP ... ">" on the shared group.
PeerReadMessages ==
    /\ pcpc = "loop"
    /\ redisUp
    /\ Len(NewEntries) > 0
    /\ pbatch' = NewEntries
    /\ lastDelivered' = NewEntries[Len(NewEntries)]
    /\ pending' = pending \cup {NewEntries[i] : i \in 1..Len(NewEntries)}
    /\ pcpc' = "process"
    /\ UNCHANGED <<peerFrame, accounts, cache, processed, accountStream, groupExists,
                   pcacct, pnewBalance, historyVars>>

\* The loop of readMessages of the second instance moves to the next message.
PeerNextMessage ==
    /\ pbatch' = Tail(pbatch)
    /\ pcpc' = IF Tail(pbatch) = <<>> THEN "loop" ELSE "process"
    /\ pcacct' = NoAccount
    /\ pnewBalance' = 0

\* processMessage of the second instance returned an error.
PeerHandlerFailed(id) ==
    /\ result' = [result EXCEPT ![id] = "err"]
    /\ pending' = AfterFailure(pending, id)
    /\ PeerNextMessage

\* processMessage of the second instance, up to the marker lookup.
PeerProcessMessage ==
    /\ pcpc = "process"
    /\ LET id == Head(pbatch)
           e  == txStream[id]
       IN  /\ delivered' = [delivered EXCEPT ![id] = @ + 1]
           /\ IF ~e.wellFormed
              THEN PeerHandlerFailed(id)
              ELSE IF e.type # TransactionCreated
                      \/ (redisUp /\ e.transactionId \in processed)
              THEN /\ result' = [result EXCEPT ![id] = "ok"]
                   /\ pcpc' = "ack"
                   /\ UNCHANGED <<pending, pbatch, pcacct, pnewBalance>>
              ELSE /\ pcpc' = "get"
                   /\ UNCHANGED <<pending, pbatch, pcacct, pnewBalance, result>>
    /\ UNCHANGED <<peerFrame, accounts, cache, processed, accountStream, groupExists,
                   lastDelivered, applied>>

\* writeRepo.GetByAccountNumber in the second instance, then the new balance.
PeerGetAccountForUpdate ==
    /\ pcpc = "get"
    /\ LET id == Head(pbatch)
           e  == txStream[id]
       IN  IF ~Visible(e.accountNumber)
           THEN PeerHandlerFailed(id)
           ELSE /\ pcacct' = RowToAccount(e.accountNumber)
                /\ pnewBalance' = NewBalance(accounts[e.accountNumber].balance, e)
                /\ pcpc' = "update"
                /\ UNCHANGED <<pending, pbatch, result>>
    /\ UNCHANGED <<peerFrame, accounts, cache, processed, accountStream, groupExists,
                   lastDelivered, applied, delivered>>

\* writeRepo.UpdateBalance in the second instance.
PeerUpdateBalance ==
    /\ pcpc = "update"
    /\ LET id == Head(pbatch)
           e  == txStream[id]
       IN  IF ~UpdateBalanceOk(e.accountNumber, pnewBalance)
           THEN /\ PeerHandlerFailed(id)
                /\ UNCHANGED <<accounts, applied>>
           ELSE /\ accounts' = SetBalance(accounts, e.accountNumber, pnewBalance)
                /\ applied' = [applied EXCEPT ![e.transactionId] = @ + 1]
                /\ pcpc' = "mark"
                /\ UNCHANGED <<pending, pbatch, pcacct, pnewBalance, result>>
    /\ UNCHANGED <<peerFrame, cache, processed, accountStream, groupExists, lastDelivered,
                   delivered>>

\* readRepo.MarkTransactionProcessed in the second instance.
PeerMarkProcessed ==
    /\ pcpc = "mark"
    /\ processed' = IF redisUp
                    THEN MarkTransactionProcessed(processed, txStream[Head(pbatch)].transactionId)
                    ELSE processed
    /\ pcpc' = "cache"
    /\ UNCHANGED <<peerFrame, accounts, cache, accountStream, groupVars, pbatch, pcacct,
                   pnewBalance, historyVars>>

\* readRepo.CacheAccountView in the second instance.
PeerRefreshCache ==
    /\ pcpc = "cache"
    /\ cache' = IF redisUp
               THEN CacheAccountView(cache, accountToView([pcacct EXCEPT !.balance = pnewBalance]))
               ELSE cache
    /\ pcpc' = "publish"
    /\ UNCHANGED <<peerFrame, accounts, processed, accountStream, groupVars, pbatch, pcacct,
                   pnewBalance, historyVars>>

\* publisher.Publish(balance.updated) in the second instance; the handler returns nil.
PeerPublishBalanceUpdated ==
    /\ pcpc = "publish"
    /\ accountStream' = IF redisUp
                       THEN Publish(accountStream,
                                    AccountEvent(BalanceUpdated,
                                                 txStream[Head(pbatch)].accountNumber, NoUser))
                       ELSE accountStream
    /\ result' = [result EXCEPT ![Head(pbatch)] = "ok"]
    /\ pcpc' = "ack"
    /\ UNCHANGED <<peerFrame, accounts, cache, processed, groupVars, pbatch, pcacct,
                   pnewBalance, applied, delivered>>

\* XACK by the second instance.
PeerAckMessage ==
    /\ pcpc = "ack"
    /\ pending' = IF redisUp THEN XAck(pending, Head(pbatch)) ELSE pending
    /\ PeerNextMessage
    /\ UNCHANGED <<peerFrame, accounts, cache, processed, accountStream, groupExists,
                   lastDelivered, historyVars>>

Peer ==
    \/ PeerStart
    \/ PeerReadMessages
    \/ PeerProcessMessage
    \/ PeerGetAccountForUpdate
    \/ PeerUpdateBalance
    \/ PeerMarkProcessed
    \/ PeerRefreshCache
    \/ PeerPublishBalanceUpdated
    \/ PeerAckMessage

(* ---------------- environment of the Subscriber ---------------- *)

\* main's shutdown goroutine receives SIGINT/SIGTERM and calls cancel().
Cancel ==
    /\ ~cancelled
    /\ cancelled' = TRUE
    /\ UNCHANGED <<storeVars, txStream, groupVars, accountStream, consumerVars, writerVars,
                   readerVars, historyVars, userVars, stopErr, redisUp,
                   peerVars>>

\* Redis stops answering: every command returns an error.
RedisDown ==
    /\ redisUp
    /\ redisUp' = FALSE
    /\ UNCHANGED <<storeVars, txStream, groupVars, accountStream, consumerVars, writerVars,
                   readerVars, historyVars, userVars, lifeVars,
                   peerVars>>

\* Redis answers again, its data intact.
RedisUp ==
    /\ ~redisUp
    /\ redisUp' = TRUE
    /\ UNCHANGED <<storeVars, txStream, groupVars, accountStream, consumerVars, writerVars,
                   readerVars, historyVars, userVars, lifeVars,
                   peerVars>>

(* ---------------- account commands ---------------- *)

\* The number of account.updated events published so far.
Updates == Cardinality({i \in 1..Len(accountStream) : accountStream[i].type = AccountUpdated})

\* A command that returns the error of Publisher.Publish.
PublishOutcomeFatal(ok) == IF ok THEN "ok" ELSE "failed to publish event"

\* What a command returns after Publisher.Publish returned (ok: without error):
\* the error is logged and the command returns its result.
PublishOutcome(ok) == "ok"

\* AccountCommandService.CreateAccount: INSERT, cache the view, publish
\* account.created.  The account number is new, so no other request or event
\* names it before the command has returned: the command is one step.
CreateAccount ==
    /\ \E n \in numbers, u \in Owners, p \in NewProfiles :
          /\ ~accounts[n].exists
          /\ LET account == [accountNumber |-> n, userID |-> u, name |-> p.name,
                             accountType |-> p.accountType, balance |-> 0]
             IN  /\ accounts' = [accounts EXCEPT ![n] =
                                    [exists |-> TRUE, deleted |-> FALSE, userID |-> u,
                                     name |-> p.name, accountType |-> p.accountType,
                                     balance |-> 0, updatedAt |-> "Create"]]
                 /\ cache' = IF redisUp THEN CacheAccountView(cache, accountToView(account))
                             ELSE cache
                 /\ accountStream' = IF redisUp
                                     THEN Publish(accountStream, AccountEvent(AccountCreated, n, u))
                                     ELSE accountStream
                 /\ wresp' = PublishOutcome(redisUp)
    /\ UNCHANGED <<numbers, txAccountCache, processed, transactions, txViews, txStream,
                   groupVars, consumerVars, wpc, wcmd, wacct, readerVars, sideVars, historyVars>>

\* An account command returns resp to its caller: its locals are gone.
Return(resp) ==
    /\ wpc' = "idle"
    /\ wcmd' = NoCommand
    /\ wacct' = NoAccount
    /\ wresp' = resp

\* UpdateAccount up to its ownership check: writeRepo.GetByAccountNumber.
UpdateAccountGet ==
    /\ wpc = "idle"
    /\ Updates < MaxUpdates
    /\ \E n \in AccountNumbers, u \in UserIDs, p \in Profiles :
          IF ~Visible(n) THEN Return("account not found")
          ELSE IF accounts[n].userID # u THEN Return("forbidden")
          ELSE /\ wcmd' = [op |-> "update", accountNumber |-> n, userID |-> u,
                           name |-> p.name, accountType |-> p.accountType]
               /\ wacct' = [RowToAccount(n) EXCEPT !.name = p.name,
                                                   !.accountType = p.accountType]
               /\ wpc' = "uUpdate"
               /\ UNCHANGED wresp
    /\ UNCHANGED <<storeVars, txStream, groupVars, accountStream, consumerVars,
                   readerVars, sideVars, historyVars>>

\* writeRepo.Update: UPDATE accounts SET name, account_type, updated_at.
UpdateAccountWrite ==
    /\ wpc = "uUpdate"
    /\ IF ~Visible(wacct.accountNumber)
       THEN /\ Return("account not found")
            /\ UNCHANGED accounts
       ELSE /\ accounts' = [accounts EXCEPT ![wacct.accountNumber].name = wacct.name,
                                            ![wacct.accountNumber].accountType = wacct.accountType,
                                            ![wacct.accountNumber].updatedAt = "Update"]
            /\ wpc' = "uReget"
            /\ UNCHANGED <<wcmd, wacct, wresp>>
    /\ UNCHANGED <<numbers, cache, txAccountCache, processed, transactions, txViews, txStream,
                   groupVars, accountStream, consumerVars, readerVars, sideVars, historyVars>>

\* The second writeRepo.GetByAccountNumber of UpdateAccount.
UpdateAccountReget ==
    /\ wpc = "uReget"
    /\ IF ~Visible(wcmd.accountNumber)
       THEN Return("account not found")
       ELSE /\ wacct' = RowToAccount(wcmd.accountNumber)
            /\ wpc' = "uCache"
            /\ UNCHANGED <<wcmd, wresp>>
    /\ UNCHANGED <<storeVars, txStream, groupVars, accountStream, consumerVars,
                   readerVars, sideVars, historyVars>>

\* readRepo.CacheAccountView(accountToView(updated)).
UpdateAccountCache ==
    /\ wpc = "uCache"
    /\ cache' = IF redisUp THEN CacheAccountView(cache, accountToView(wacct)) ELSE cache
    /\ wpc' = "uPublish"
    /\ UNCHANGED <<numbers, accounts, txAccountCache, processed, transactions, txViews, txStream,
                   groupVars, accountStream, consumerVars, wcmd, wacct, wresp, readerVars, sideVars, historyVars>>

\* publisher.Publish(account.updated); UpdateAccount returns the view.
UpdateAccountPublish ==
    /\ wpc = "uPublish"
    /\ accountStream' = IF redisUp
                        THEN Publish(accountStream,
                                     AccountEvent(AccountUpdated, wcmd.accountNumber, wacct.userID))
                        ELSE accountStream
    /\ Return(PublishOutcome(redisUp))
    /\ UNCHANGED <<storeVars, txStream, groupVars, consumerVars, readerVars, sideVars,
                   historyVars>>

\* A DeleteAccount that removes the cached view before it has read the account.
DeleteAccountGetInvalidatesFirst ==
    /\ wpc = "idle"
    /\ \E n \in AccountNumbers, u \in UserIDs :
          /\ cache' = InvalidateAccountView(cache, n)
          /\ IF ~Visible(n) THEN Return("account not found")
             ELSE IF accounts[n].userID # u THEN Return("forbidden")
             ELSE /\ wcmd' = [op |-> "delete", accountNumber |-> n, userID |-> u,
                              name |-> "", accountType |-> ""]
                  /\ wacct' = RowToAccount(n)
                  /\ wpc' = "dDelete"
                  /\ UNCHANGED wresp
    /\ UNCHANGED <<numbers, accounts, txAccountCache, processed, transactions, txViews,
                   txStream, groupVars, accountStream, consumerVars,
                   readerVars, sideVars, historyVars>>

\* DeleteAccount up to its ownership check: writeRepo.GetByAccountNumber.
DeleteAccountGet ==
    /\ wpc = "idle"
    /\ \E n \in AccountNumbers, u \in UserIDs :
          IF ~Visible(n) THEN Return("account not found")
          ELSE IF accounts[n].userID # u THEN Return("forbidden")
          ELSE /\ wcmd' = [op |-> "delete", accountNumber |-> n, userID |-> u,
                           name |-> "", accountType |-> ""]
               /\ wacct' = RowToAccount(n)
               /\ wpc' = "dDelete"
               /\ UNCHANGED wresp
    /\ UNCHANGED <<storeVars, txStream, groupVars, accountStream, consumerVars,
                   readerVars, sideVars, historyVars>>

\* writeRepo.Delete: UPDATE accounts SET deleted_at = NOW().
DeleteAccountWrite ==
    /\ wpc = "dDelete"
    /\ IF ~Visible(wcmd.accountNumber)
       THEN /\ Return("account not found")
            /\ UNCHANGED accounts
       ELSE /\ accounts' = [accounts EXCEPT ![wcmd.accountNumber].deleted = TRUE]
            /\ wpc' = "dInvalidate"
            /\ UNCHANGED <<wcmd, wacct, wresp>>
    /\ UNCHANGED <<numbers, cache, txAccountCache, processed, transactions, txViews, txStream,
                   groupVars, accountStream, consumerVars, readerVars, sideVars, historyVars>>

\* readRepo.InvalidateAccountView.
DeleteAccountInvalidate ==
    /\ wpc = "dInvalidate"
    /\ cache' = IF redisUp THEN InvalidateAccountView(cache, wcmd.accountNumber) ELSE cache
    /\ wpc' = "dPublish"
    /\ UNCHANGED <<numbers, accounts, txAccountCache, processed, transactions, txViews, txStream,
                   groupVars, accountStream, consumerVars, wcmd, wacct, wresp, readerVars, sideVars, historyVars>>

\* publisher.Publish(account.deleted); DeleteAccount returns nil.
DeleteAccountPublish ==
    /\ wpc = "dPublish"
    /\ accountStream' = IF redisUp
                        THEN Publish(accountStream,
                                     AccountEvent(AccountDeleted, wcmd.accountNumber, wacct.userID))
                        ELSE accountStream
    /\ Return(PublishOutcome(redisUp))
    /\ UNCHANGED <<storeVars, txStream, groupVars, consumerVars, readerVars, sideVars,
                   historyVars>>

UpdateAccount ==
    \/ UpdateAccountGet
    \/ UpdateAccountWrite
    \/ UpdateAccountReget
    \/ UpdateAccountCache
    \/ UpdateAccountPublish

DeleteAccount ==
    \/ DeleteAccountGet
    \/ DeleteAccountWrite
    \/ DeleteAccountInvalidate
    \/ DeleteAccountPublish

(* ---------------- account reads (cache-aside) ---------------- *)

\* AccountQueryService.GetAccount after GetByAccountNumber returned view by path
\* from: the ownership check, then the view.
Respond(from, view, u) ==
    IF view.userID # u
    THEN [from |-> from, outcome |-> "forbidden", view |-> NoAccount]
    ELSE [from |-> from, outcome |-> "ok", view |-> view]

\* A Get that reports a value whatever Redis answered.
CacheHitUnchecked(n) == TRUE

\* ViewCache.Get reports a value: Redis answered without error and the key holds
\* an entry; any error is reported as a miss.
CacheHit(n) == redisUp /\ cache[n].present

\* GetAccount -> GetByAccountNumber: cache.Get; a hit is returned.
ReadCacheGet ==
    /\ rpc = "idle"
    /\ \E n \in AccountNumbers, u \in UserIDs :
          IF CacheHit(n)
          THEN /\ rresp' = Respond("hit", UnmarshalView(cache[n]), u)
               /\ UNCHANGED <<rpc, racct, rview, ruser>>
          ELSE /\ racct' = n
               /\ ruser' = u
               /\ rpc' = "rDb"
               /\ UNCHANGED <<rview, rresp>>
    /\ UNCHANGED <<storeVars, txStream, groupVars, accountStream, consumerVars,
                   writerVars, historyVars, sideVars>>

\* The PostgreSQL fallback of GetByAccountNumber.
ReadStore ==
    /\ rpc = "rDb"
    /\ IF ~Visible(racct)
       THEN /\ rresp' = [from |-> "cold", outcome |-> "account not found", view |-> NoAccount]
            /\ rpc' = "idle"
            /\ racct' = ""
            /\ ruser' = NoUser
            /\ UNCHANGED rview
       ELSE /\ rview' = RowToAccount(racct)
            /\ rpc' = "rSet"
            /\ UNCHANGED <<racct, ruser, rresp>>
    /\ UNCHANGED <<storeVars, txStream, groupVars, accountStream, consumerVars,
                   writerVars, historyVars, sideVars>>

\* Warm the cache and return the view read from the store; GetAccount then
\* checks ownership.
ReadWarmCache ==
    /\ rpc = "rSet"
    /\ cache' = IF redisUp THEN CacheAccountView(cache, rview) ELSE cache
    /\ rresp' = Respond("cold", rview, ruser)
    /\ rpc' = "idle"
    /\ racct' = ""
    /\ ruser' = NoUser
    /\ rview' = NoAccount
    /\ UNCHANGED <<numbers, accounts, txAccountCache, processed, transactions, txViews, txStream,
                   groupVars, accountStream, consumerVars, writerVars, historyVars, sideVars>>

AccountRead ==
    \/ ReadCacheGet
    \/ ReadStore
    \/ ReadWarmCache

\* Redis drops an account view (eviction or a flush); the next read is a cold read.
Evict ==
    /\ \E n \in AccountNumbers :
          /\ cache[n].present
          /\ cache' = [cache EXCEPT ![n] = NoEntry]
    /\ UNCHANGED <<numbers, accounts, txAccountCache, processed, transactions, txViews, txStream,
                   groupVars, accountStream, consumerVars, writerVars, readerVars, sideVars,
                   historyVars>>

(* ---------------- transaction commands ---------------- *)

\* AccountRepository.GetAccount of the transaction service: GET account:<n>.
GetAccount(n) == txAccountCache[n]

\* What TransactionCommandService.CreateTransaction answers to a command.
CreateTransactionOutcome(n, u, amt, ty) ==
    IF amt <= 0 THEN "amount must be greater than zero"
    ELSE IF ~GetAccount(n).present THEN "account not found"
    ELSE IF GetAccount(n).userID # u THEN "forbidden"
    ELSE IF ty = "withdrawal" /\ GetAccount(n).balance < amt THEN "insufficient funds"
    ELSE "created"

\* TransactionCommandService.CreateTransaction.
CreateTransaction ==
    /\ \E n \in AccountNumbers, u \in UserIDs, amt \in {0} \cup Amounts,
          ty \in {"deposit", "withdrawal"} :
          LET outcome == CreateTransactionOutcome(n, u, amt, ty)
              t == CHOOSE x \in FreshTxnIds : \A y \in FreshTxnIds : x <= y
          IN  IF outcome = "created" /\ Len(txStream) < MaxEntries /\ FreshTxnIds # {}
              THEN /\ transactions' = transactions \cup {t}
                   /\ txViews' = txViews \cup {t}
                   /\ txStream' = Publish(txStream, TxEvent(t, n, u, amt, ty))
              ELSE \* outcome is returned as the error
                   UNCHANGED <<transactions, txViews, txStream>>
    /\ UNCHANGED <<numbers, accounts, cache, txAccountCache, processed, groupVars, accountStream,
                   consumerVars, writerVars, readerVars, sideVars, historyVars>>

(* ---------------- user service ---------------- *)

\* UserCommandService.CreateUser: INSERT, cache the view (user.created is published
\* on user.events, which nothing modelled here reads).
CreateUser ==
    /\ \E u \in UserIDs :
          /\ users[u] = "none"
          /\ users' = [users EXCEPT ![u] = "active"]
          /\ userCache' = IF redisUp THEN userCache \cup {u} ELSE userCache
    /\ UNCHANGED <<storeVars, txStream, groupVars, accountStream, consumerVars, writerVars,
                   readerVars, historyVars, accCount, ucursor, lifeVars, redisUp,
                   peerVars>>

\* UserReadRepository.HasActiveAccounts: GET user:acc-count:<id> answered without
\* error with a value above zero.
HasActiveAccounts(u) == redisUp /\ accCount[u] > 0

\* What UserCommandService.DeleteUser answers.
DeleteUserOutcome(u) ==
    IF HasActiveAccounts(u) THEN "user has active accounts"
    ELSE IF users[u] # "active" THEN "user not found"
    ELSE "deleted"

\* UserCommandService.DeleteUser: the counter check, the soft delete, the
\* invalidation of the cached view.
DeleteUser ==
    /\ \E u \in UserIDs :
          IF DeleteUserOutcome(u) = "deleted"
          THEN /\ users' = [users EXCEPT ![u] = "deleted"]
               /\ userCache' = IF redisUp THEN userCache \ {u} ELSE userCache
          ELSE UNCHANGED <<users, userCache>>
    /\ UNCHANGED <<storeVars, txStream, groupVars, accountStream, consumerVars, writerVars,
                   readerVars, historyVars, accCount, ucursor, lifeVars, redisUp,
                   peerVars>>

\* IncrAccountCount: INCR user:acc-count:<id>.
IncrAccountCount(c, u) == [c EXCEPT ![u] = @ + 1]

\* DecrAccountCount: DECR when the counter reads above zero.
DecrAccountCount(c, u) == IF c[u] > 0 THEN [c EXCEPT ![u] = @ - 1] ELSE c

\* The user service's Subscriber takes the next entry of account.events and
\* UserCommandService.HandleAccountEvent handles it; the handler returns nil for
\* every decodable event and the entry is acknowledged.
HandleAccountEvent ==
    /\ redisUp
    /\ ucursor < Len(accountStream)
    /\ ucursor' = ucursor + 1
    /\ LET e == accountStream[ucursor + 1]
       IN  accCount' = CASE e.type = AccountCreated -> IncrAccountCount(accCount, e.userID)
                         [] e.type = AccountDeleted -> DecrAccountCount(accCount, e.userID)
                         [] OTHER -> accCount
    /\ UNCHANGED <<storeVars, txStream, groupVars, accountStream, consumerVars, writerVars,
                   readerVars, historyVars, users, userCache, lifeVars, redisUp,
                   peerVars>>

\* At-least-once delivery on account.events: an account.created or
\* account.deleted event already in the stream reaches the user service once
\* more, as a further entry that carries the same event.
PublishAccountDuplicate ==
    /\ Len(accountStream) < MaxAccountEntries
    /\ \E i \in 1..Len(accountStream) :
          /\ accountStream[i].type \in {AccountCreated, AccountDeleted}
          /\ accountStream' = Publish(accountStream, accountStream[i])
    /\ UNCHANGED <<storeVars, txStream, groupVars, consumerVars, writerVars, readerVars,
                   sideVars, historyVars>>

(* ---------------- specification ---------------- *)

\* The event pipeline: producers of transaction.events and the Subscriber.
Pipeline ==
    \/ PublishTransactionCreated
    \/ PublishDuplicate
    \/ PublishOther
    \/ Consumer
    \/ Crash

Next ==
    \/ Pipeline
    \/ CreateAccount

Spec == Init /\ [][Next]_vars

\* The Subscriber goroutine keeps running: each step it can take is taken.
FairSpec == Spec /\ WF_vars(Consumer)

\* The read model under concurrent commands, reads and projections.
CacheNext ==
    \/ CreateAccount
    \/ UpdateAccount
    \/ DeleteAccount
    \/ AccountRead
    \/ Evict

CacheSpec == Init /\ [][CacheNext]_vars

\* The account commands and reads with Redis failing under them.
FaultNext ==
    \/ CacheNext
    \/ RedisDown
    \/ RedisUp

FaultSpec == Init /\ [][FaultNext]_vars

\* The transaction service next to the pipeline it feeds.
TxNext ==
    \/ Next
    \/ CreateTransaction

TxSpec == Init /\ [][TxNext]_vars

\* Deletion of an account next to the projection of its transactions.
DeleteNext ==
    \/ PublishTransactionCreated
    \/ Consumer
    \/ CreateAccount
    \/ DeleteAccount

DeleteSpec == Init /\ [][DeleteNext]_vars

\* The user service next to the account commands whose events it counts.
UserNext ==
    \/ CreateUser
    \/ DeleteUser
    \/ HandleAccountEvent
    \/ CreateAccount
    \/ UpdateAccount
    \/ DeleteAccount

UserSpec == Init /\ [][UserNext]_vars

\* The projection of transactions next to UpdateAccount on the same account.
ProjectNext ==
    \/ (Len(txStream) < MaxProjected /\ PublishTransactionCreated)
    \/ CreateAccount
    \/ UpdateAccount
    \/ Consumer

ProjectSpec == Init /\ [][ProjectNext]_vars

\* The projection of the transactions of accounts that exist when their events
\* are published.
OrderNext ==
    \/ CreateAccount
    \/ ((\A n \in numbers : Visible(n)) /\ PublishTransactionCreated)
    \/ Consumer

OrderSpec == Init /\ [][OrderNext]_vars

\* Two instances of the account service share the group on transaction.events.
PeerNext ==
    \/ CreateAccount
    \/ ((\A n \in numbers : Visible(n)) /\ PublishTransactionCreated)
    \/ Consumer
    \/ Peer

PeerSpec == Init /\ [][PeerNext]_vars

\* The user service's counter next to the account commands, with redelivery.
CountNext ==
    \/ CreateAccount
    \/ UpdateAccount
    \/ DeleteAccount
    \/ HandleAccountEvent
    \/ PublishAccountDuplicate

CountSpec == Init /\ [][CountNext]_vars

\* The Subscriber with its context cancelled and Redis failing under it.
LifeNext ==
    \/ PublishTransactionCreated
    \/ CreateAccount
    \/ Consumer
    \/ ReadFailed
    \/ Stop
    \/ Cancel
    \/ RedisDown
    \/ RedisUp

LifeSpec == Init /\ [][LifeNext]_vars

\* The Subscriber with Redis failing under it and answering again.
AckNext ==
    \/ PublishTransactionCreated
    \/ CreateAccount
    \/ Consumer
    \/ ReadFailed
    \/ RedisDown
    \/ RedisUp

AckSpec == Init /\ [][AckNext]_vars

\* The Subscriber goroutine keeps running, and a Redis that is down comes back.
AckFairSpec == AckSpec /\ WF_vars(Consumer) /\ WF_vars(RedisUp)

\* The Subscriber with redelivered events and Redis failing under it.
MarkerNext ==
    \/ PublishTransactionCreated
    \/ PublishDuplicate
    \/ CreateAccount
    \/ Consumer
    \/ ReadFailed
    \/ RedisDown
    \/ RedisUp

MarkerSpec == Init /\ [][MarkerNext]_vars

\* The Subscriber and the cancellation of its context.
CancelNext ==
    \/ PublishTransactionCreated
    \/ CreateAccount
    \/ Consumer
    \/ ReadFailed
    \/ Stop
    \/ Cancel

CancelSpec == Init /\ [][CancelNext]_vars

\* The Subscriber goroutine keeps running until Start returns.
CancelFairSpec == CancelSpec /\ WF_vars(Consumer \/ Stop)

(* ---------------- vocabulary of the properties ---------------- *)

Entries == 1..Len(txStream)

\* Entry i carries a transaction.created event.
IsTx(i) == i \in Entries /\ txStream[i].wellFormed /\ txStream[i].type = TransactionCreated

\* Entries i and j carry the same transaction.created event.
SameEvent(i, j) ==
    IsTx(i) /\ IsTx(j) /\ txStream[i].transactionId = txStream[j].transactionId

\* The Subscriber is handling entry i.
InFlight(i) ==
    /\ cpc \in {"process", "get", "update", "mark", "cache", "publish", "ack"}
    /\ Head(batch) = i

\* Entry i was delivered and acknowledged.
Acked(i) == groupExists /\ i <= lastDelivered /\ i \notin pending

\* processMessage returned for entry i.
Completed(i) == result[i] \in {"ok", "err"}

\* The process died while it handled entry i.
Died(i) == result[i] \in {"process", "get", "update", "mark", "cache", "publish", "ack"}

\* No handling of transaction t was cut short by a crash.
RanToCompletion(t) == \A k \in Entries : IsTx(k) /\ txStream[k].transactionId = t => ~Died(k)

\* The signed amount of a transaction.created event.
Delta(e) == IF e.txType = "deposit" THEN e.amount ELSE 0 - e.amount

\* The transaction ids whose event names account n.
TxnsOf(n) == {txStream[i].transactionId : i \in {k \in Entries : IsTx(k) /\ txStream[k].accountNumber = n}}

\* The event that carries transaction id t.
EventOf(t) == txStream[CHOOSE i \in Entries : IsTx(i) /\ txStream[i].transactionId = t]

RECURSIVE SumDeltas(_)
\* The sum over the transactions in T of (times applied) * (signed amount).
SumDeltas(T) ==
    IF T = {} THEN 0
    ELSE LET t == CHOOSE x \in T : TRUE
         IN  applied[t] * Delta(EventOf(t)) + SumDeltas(T \ {t})

\* The durable balance of account n is what the applied deltas add up to.
BalanceIsLedger(n) == accounts[n].exists => accounts[n].balance = SumDeltas(TxnsOf(n))

(* ---------------- C1 ---------------- *)

\* C1: idempotence of the balance projector.  When the same transaction.created
\* event is handled twice (two deliveries i < j) and every handling of it ran to
\* completion, the first having succeeded, then the second returned success, the
\* delta was applied exactly once, and the durable balance of the account is the
\* sum of the deltas applied, this one counted once.
C1_Idempotence ==
    \A i, j \in Entries :
        ( /\ i < j
          /\ SameEvent(i, j)
          /\ RanToCompletion(txStream[i].transactionId)
          /\ result[i] = "ok"
          /\ Completed(j) )
        => /\ result[j] = "ok"
           /\ applied[txStream[i].transactionId] = 1
           /\ BalanceIsLedger(txStream[i].accountNumber)

\* A deposit handled twice to completion: the balance is the amount, not twice it.
C1_Witness ==
    \E i, j \in Entries :
        /\ i < j
        /\ SameEvent(i, j)
        /\ txStream[i].txType = "deposit"
        /\ result[i] = "ok"
        /\ result[j] = "ok"
        /\ applied[txStream[i].transactionId] = 1
        /\ accounts[txStream[i].accountNumber].balance = txStream[i].amount

(* ---------------- C2 ---------------- *)

AfterMark == {"cache", "publish", "ack"}

\* C3 (state part): after a crash past the marker, a completed later delivery of
\* the same event returned success and its entry is acknowledged.
C3_State ==
    \A i, j \in Entries :
        ( /\ i < j
          /\ SameEvent(i, j)
          /\ result[i] \in AfterMark
          /\ Completed(j) )
        => /\ result[j] = "ok"
           /\ Acked(j) \/ (InFlight(j) /\ cpc = "ack")

\* C3 (step part): once the marker of a transaction exists, no step applies its
\* delta again, and no step changes a balance without applying a delta.
C3_Step ==
    /\ \A t \in processed : applied'[t] = applied[t]
    /\ (applied' = applied) =>
           \A n \in AccountNumbers : accounts'[n].balance = accounts[n].balance

\* C3: redelivery safety.  If the projector crashes after the idempotency marker
\* was written and before the entry is acknowledged, a later delivery of the same
\* event leaves the balance unchanged, the handler returns success, and the
\* delivered entry is then acknowledged.
C3_RedeliverySafety == [](C3_State) /\ [][C3_Step]_vars

\* A crash past the marker, then the event again: handled with success, balance
\* applied once, entry acknowledged.
C3_Witness ==
    \E i, j \in Entries :
        /\ i < j
        /\ SameEvent(i, j)
        /\ result[i] \in AfterMark
        /\ result[j] = "ok"
        /\ Acked(j)
        /\ applied[txStream[i].transactionId] = 1
        /\ accounts[txStream[i].accountNumber].balance = Delta(txStream[i])

(* ---------------- C4 ---------------- *)

\* C4: redelivery of failed entries.  An entry whose processMessage returned an
\* error is delivered again while the consumer keeps running.
C4_FailedEntryRedelivered ==
    \A i \in 1..MaxEntries : (result[i] = "err") ~> (delivered[i] >= 2)

(* ---------------- C5 ---------------- *)

\* C5: acknowledge only on handler success.  An acknowledged entry is one whose
\* processMessage returned success; an entry that could not be decoded or whose
\* handler returned an error is still pending.
C5_AckOnlyOnSuccess ==
    \A i \in Entries :
        /\ Acked(i) => result[i] = "ok"
        /\ result[i] = "err" => i \in pending

\* One entry acknowledged after success, another left pending after its failure.
C5_Witness ==
    \E i, j \in Entries :
        /\ Acked(i) /\ result[i] = "ok"
        /\ result[j] = "err" /\ j \in pending /\ ~InFlight(j)

(* ---------------- C6 ---------------- *)

\* The cached view of account n, if there is one, shows the row's name and type,
\* and no view is cached for a deleted account.
Coherent(n) ==
    cache[n].present =>
        /\ Visible(n)
        /\ cache[n].name = accounts[n].name
        /\ cache[n].accountType = accounts[n].accountType

\* C6: cache coherence.  Once every account command has returned and no read is
\* in flight, a read of an account returns what the last command left in the store:
\* the cached view (a hit) agrees with the row (the cold-store fallback).
C6_CacheCoherent ==
    (wpc = "idle" /\ rpc = "idle") => \A n \in AccountNumbers : Coherent(n)

(* ---------------- C7 ---------------- *)

\* C7: the durable balance of every account is never negative.
C7_BalanceNonNegative == \A n \in AccountNumbers : accounts[n].balance >= 0

\* A withdrawal above the balance of an existing account reached UpdateBalance
\* and was refused.
C7_Witness ==
    \E i \in Entries :
        /\ IsTx(i)
        /\ txStream[i].txType = "withdrawal"
        /\ Visible(txStream[i].accountNumber)
        /\ accounts[txStream[i].accountNumber].balance < txStream[i].amount
        /\ result[i] = "err"
        /\ \E t \in TxnIds : applied[t] > 0

(* ---------------- C8 ---------------- *)

\* C8: insufficient funds at command time.  A withdrawal by the owner of an
\* existing account for more than its balance is answered "insufficient funds".
C8_InsufficientFunds ==
    \A n \in AccountNumbers, amt \in Amounts :
        (Visible(n) /\ amt > accounts[n].balance)
        => CreateTransactionOutcome(n, accounts[n].userID, amt, "withdrawal")
               = "insufficient funds"

(* ---------------- C9 ---------------- *)

\* C9: a deposit on a freshly created account is accepted.  For an account that
\* CreateAccount has created, a deposit of a positive amount by its owner succeeds.
C9_DepositAccepted ==
    \A n \in AccountNumbers, amt \in Amounts :
        Visible(n) => CreateTransactionOutcome(n, accounts[n].userID, amt, "deposit") = "created"

(* ---------------- C10 ---------------- *)

\* What the claim expects after an event of amount a on a balance b.
Expected(b, e) == IF e.txType = "deposit" THEN b + e.amount ELSE b - e.amount

\* C10 (state part): the handler has returned success after applying the event:
\* the durable balance is b+a / b-a and the marker exists.
C10_State ==
    (cpc = "ack" /\ cacct # NoAccount) =>
        LET e == txStream[Head(batch)]
        IN  /\ accounts[e.accountNumber].balance = Expected(cacct.balance, e)
            /\ e.transactionId \in processed

\* C10 (step part): the cache refresh of the handler leaves the cached view with
\* the balance b+a / b-a.
C10_Step ==
    (cpc = "cache" /\ cpc' = "publish") =>
        LET e == txStream[Head(batch)]
        IN  /\ cache'[e.accountNumber].present
            /\ cache'[e.accountNumber].balance = Expected(cacct.balance, e)
            /\ cache'[e.accountNumber].balance = accounts'[e.accountNumber].balance

\* C10: the result of one projection.  A successful handling of a not yet
\* processed transaction.created event of amount a on an account of durable
\* balance b leaves the durable balance and the cached balance at b+a (deposit)
\* or b-a (withdrawal), and the idempotency marker in place.
C10_ProjectionResult == [](C10_State) /\ [][C10_Step]_vars

\* A new account and one deposit: balance and cached balance are the amount, and
\* the marker exists.
C10_Witness ==
    /\ cpc = "ack"
    /\ cacct # NoAccount
    /\ cacct.balance = 0
    /\ txStream[Head(batch)].txType = "deposit"
    /\ accounts[cacct.accountNumber].balance = txStream[Head(batch)].amount
    /\ cache[cacct.accountNumber].balance = txStream[Head(batch)].amount
    /\ txStream[Head(batch)].transactionId \in processed

(* ---------------- C11 ---------------- *)

\* C11 (step): the cold read takes the row's value in every field, and the
\* entry it leaves in the cache decodes, as a following hit decodes it, to
\* exactly the view the cold read returned.
C11_Step ==
    /\ (rpc = "rDb" /\ rpc' = "rSet") =>
           /\ rview'.accountNumber = racct
           /\ rview'.userID = accounts[racct].userID
           /\ rview'.name = accounts[racct].name
           /\ rview'.accountType = accounts[racct].accountType
           /\ rview'.balance = accounts[racct].balance
    /\ (rpc = "rSet" /\ rpc' = "idle") =>
           /\ cache'[racct].present
           /\ UnmarshalView(cache'[racct]) = rview
           /\ Respond("hit", UnmarshalView(cache'[racct]), ruser) =
                  [rresp' EXCEPT !.from = "hit"]

C12_SameOutcome ==
    \A n \in AccountNumbers, u \in UserIDs :
        (cache[n].present /\ Visible(n)) =>
            /\ cache[n].userID = accounts[n].userID
            /\ Respond("", UnmarshalView(cache[n]), u).outcome
                   = Respond("", RowToAccount(n), u).outcome
            /\ Respond("", UnmarshalView(cache[n]), u).outcome
                   = IF u = accounts[n].userID THEN "ok" ELSE "forbidden"

\* A cache hit has answered the owner with the view.
C12_Witness ==
    /\ rresp.from = "hit"
    /\ rresp.outcome = "ok"
    /\ Visible(rresp.view.accountNumber)
    /\ rresp.view.userID = accounts[rresp.view.accountNumber].userID

(* ---------------- C13 ---------------- *)

\* C13: a deleted account is no longer readable.  Once DeleteAccount has
\* returned success for an account number and the Subscriber is between two
\* entries, no cached view exists for it (so that every later read answers
\* account not found).
C13_DeletedNotProjected ==
    \A n \in AccountNumbers :
        (accounts[n].deleted /\ wpc = "idle" /\ cpc = "loop") => ~cache[n].present

(* ---------------- C14 ---------------- *)

\* C14: deleting a user with open accounts is refused.  Whenever an existing
\* user owns at least one account that is not deleted, DeleteUser for that user
\* answers "user has active accounts".
C14_DeleteUserRefused ==
    \A u \in UserIDs :
        (users[u] = "active" /\ \E n \in AccountNumbers : Visible(n) /\ accounts[n].userID = u)
        => DeleteUserOutcome(u) = "user has active accounts"

(* ---------------- C15 ---------------- *)

\* Start is in its loop (the group has been set up and Start has not returned).
Running == cpc \notin {"start", "stopped"}

\* C15 (step part): after the cancellation no further batch is read; when Start
\* returns from its loop it returns the context's error and leaves the group's
\* pending entries and cursor as they are.
C15_Step ==
    /\ cancelled => lastDelivered' = lastDelivered
    /\ (Running /\ cpc' = "stopped") =>
           /\ cancelled
           /\ stopErr' = "context canceled"
           /\ pending' = pending
           /\ lastDelivered' = lastDelivered

\* C15: cancellation terminates the consumer.  After the context passed to
\* Subscriber.Start is cancelled while Start is in its loop, Start eventually
\* returns, without reading a further batch; the error it returns is the
\* context's cancellation error and the entries not yet acknowledged stay pending.
C15_CancelStops ==
    /\ (cancelled /\ Running) ~> (cpc = "stopped" /\ stopErr = "context canceled")
    /\ [][C15_Step]_vars

\* Start has returned the cancellation error with an entry left pending.
C15_Witness ==
    /\ cancelled
    /\ cpc = "stopped"
    /\ stopErr = "context canceled"
    /\ pending # {}

(* ---------------- C16 ---------------- *)

\* C16: the consumer stops only on cancellation.  Once consumer-group setup has
\* succeeded, Start leaves the running state only in a step taken with its
\* context cancelled; a failed read, a handler error or a failed acknowledgement
\* leaves it running.
C16_StopsOnlyOnCancel ==
    [][(Running /\ ~cancelled) => (cpc' # "stopped" /\ stopErr' = "")]_vars

\* Redis is failing the reads, one handler has returned an error, one entry was
\* handled with success and its acknowledgement failed: Start is still running.
C16_Witness ==
    /\ ~cancelled
    /\ ~redisUp
    /\ cpc = "loop"
    /\ stopErr = ""
    /\ \E i, j \in Entries :
          /\ result[i] = "err"
          /\ result[j] = "ok" /\ j \in pending

(* ---------------- C17 ---------------- *)

\* C17: group-creation idempotence.  Running the consumer-group setup of
\* Subscriber.Start when the group already exists returns no error (Start goes on
\* to its loop) and leaves the group's cursor and its pending entries unchanged.
C17_GroupSetupIdempotent ==
    [][(cpc = "start" /\ groupExists /\ cpc' # "start") =>
          /\ cpc' = "loop"
          /\ stopErr' = ""
          /\ groupExists'
          /\ lastDelivered' = lastDelivered
          /\ pending' = pending]_vars

\* The setup has run a second time, after a crash, on a group that has delivered
\* entries and holds a pending one.
C17_Witness ==
    /\ cpc = "loop"
    /\ groupExists
    /\ lastDelivered > 0
    /\ \E i \in Entries : Died(i) /\ i \in pending

(* ---------------- C19 ---------------- *)

\* Two account numbers are to be given out.
InitPair ==
    /\ numbers = AccountNumbers
    /\ InitStores

\* Two accounts and the transaction events of both.
PairNext ==
    \/ PublishTransactionCreated
    \/ CreateAccount
    \/ Consumer

PairSpec == InitPair /\ [][PairNext]_vars

\* The handler is at work on a transaction.created event.
Handling ==
    /\ cpc \in {"process", "get", "update", "mark", "cache", "publish"}
    /\ txStream[Head(batch)].wellFormed
    /\ txStream[Head(batch)].type = TransactionCreated

\* C19: independence across accounts.  Handling a transaction.created event for
\* account A leaves the durable balance, the cached view and every other attribute
\* of every other account B unchanged.
C19_Independence ==
    [][(Handling /\ <<cpc, batch>>' # <<cpc, batch>>) =>
          \A b \in AccountNumbers \ {txStream[Head(batch)].accountNumber} :
             /\ accounts'[b] = accounts[b]
             /\ cache'[b] = cache[b]]_vars

\* Two accounts exist; an event for one has been applied and acknowledged, its
\* row and view carry the new balance, the other's row and view are at zero.
C19_Witness ==
    /\ cpc = "loop"
    /\ \E a \in AccountNumbers, b \in AccountNumbers, i \in 1..Len(txStream) :
          /\ a # b
          /\ Visible(a) /\ Visible(b)
          /\ txStream[i].accountNumber = a
          /\ result[i] = "ok" /\ i \notin pending
          /\ accounts[a].balance > 0
          /\ cache[a].present /\ cache[a].balance = accounts[a].balance
          /\ accounts[b].balance = 0
          /\ cache[b].present /\ cache[b].balance = 0

(* ---------------- C18 ---------------- *)

\* The account command at its Publish call has committed this store write.
Committed ==
    \/ /\ wpc = "uPublish"
       /\ accounts[wcmd.accountNumber].name = wcmd.name
       /\ accounts[wcmd.accountNumber].accountType = wcmd.accountType
    \/ /\ wpc = "dPublish"
       /\ accounts[wcmd.accountNumber].deleted

\* One step in which Publisher.Publish fails under a command whose store write
\* has committed.
C18_Step ==
    /\ (Committed /\ wpc' = "idle" /\ accountStream' = accountStream) =>
          /\ wresp' = "ok"
          /\ accounts' = accounts
          /\ cache' = cache
    /\ \A n \in AccountNumbers :
          (~accounts[n].exists /\ accounts'[n].exists /\ accountStream' = accountStream) =>
             /\ wresp' = "ok"
             /\ \A m \in AccountNumbers \ {n} : accounts'[m] = accounts[m]

C20_Step ==
    \* a failing Get is a miss: the read goes on to the store, nothing is answered
    /\ (rpc = "idle" /\ ~redisUp /\ rpc' # rpc) => (rpc' = "rDb" /\ rresp' = rresp)
    /\ (rresp' # rresp /\ rresp'.from = "hit") => redisUp
    \* the fallback returns the value it read from the store, warmed or not
    /\ (rpc = "rDb" /\ rpc' = "rSet") => rview' = RowToAccount(racct)
    /\ (rpc = "rSet" /\ rpc' = "idle") =>
          /\ rresp' = Respond("cold", rview, ruser)
          /\ ~redisUp => cache' = cache
    \* a failing Set or Delete returns nothing: the command goes on and succeeds
    /\ (wpc = "uCache" /\ ~redisUp /\ wpc' # wpc) => (wpc' = "uPublish" /\ cache' = cache)
    /\ (wpc = "dInvalidate" /\ ~redisUp /\ wpc' # wpc) =>
          (wpc' = "dPublish" /\ cache' = cache)
    /\ (wpc \in {"uPublish", "dPublish"} /\ wpc' # wpc) => (wpc' = "idle" /\ wresp' = "ok")

\* C20: cache failures are never fatal.  A failing cache Get is reported as a
\* miss, so the read falls back to the durable store and returns its value; a
\* failing cache Set or Delete returns nothing to the caller, so the command whose
\* store write already committed still returns success.
C20_CacheFailuresNotFatal == [][C20_Step]_vars

\* With Redis failing, UpdateAccount has returned success over a cached view it
\* could not refresh, and a read of that account has answered from the store with
\* the updated name.
C20_Witness ==
    /\ ~redisUp
    /\ wpc = "idle" /\ wresp = "ok"
    /\ rpc = "idle" /\ rresp.from = "cold" /\ rresp.outcome = "ok"
    /\ \E n \in AccountNumbers :
          /\ Visible(n)
          /\ cache[n].present
          /\ cache[n].name # accounts[n].name
          /\ rresp.view.accountNumber = n
          /\ rresp.view.name = accounts[n].name

(* ---------------- C21 ---------------- *)

\* Every idempotency marker belongs to a transaction whose UpdateBalance succeeded.
C21_State == \A t \in processed : applied[t] >= 1

\* A step in which UpdateBalance returns an error: the handler returns an error
\* for the entry and no marker is written.
C21_Step ==
    (cpc = "update" /\ <<cpc, batch>>' # <<cpc, batch>> /\ cpc' # "start"
       /\ applied' = applied)
    => /\ result'[Head(batch)] = "err"
       /\ processed' = processed
       /\ cpc' \in {"loop", "process"}

\* C21: the idempotency marker is written only after the balance write succeeds.
\* In every reachable state, if the marker for a transaction id exists then
\* UpdateBalance for that transaction has succeeded; when UpdateBalance returns
\* an error the handler returns an error and writes no marker.
C21_MarkerAfterBalance == [](C21_State) /\ [][C21_Step]_vars

\* One transaction applied and marked; another whose UpdateBalance was refused
\* (a withdrawal above the balance): its handler returned an error, no marker.
C21_Witness ==
    \E i, j \in Entries :
        /\ IsTx(i) /\ IsTx(j)
        /\ result[i] = "ok"
        /\ txStream[i].transactionId \in processed
        /\ applied[txStream[i].transactionId] = 1
        /\ result[j] = "err"
        /\ txStream[j].accountNumber = txStream[i].accountNumber
        /\ txStream[j].txType = "withdrawal"
        /\ Visible(txStream[j].accountNumber)
        /\ accounts[txStream[j].accountNumber].balance < txStream[j].amount
        /\ txStream[j].transactionId \notin processed
        /\ applied[txStream[j].transactionId] = 0

(* ---------------- C22 ---------------- *)

\* The Subscriber takes a step of the handler (the process does not die).
HandlerStep == <<cpc, batch>>' # <<cpc, batch>> /\ cpc' # "start"

\* C22: a missing account is a hard error with no side effects.  When the account
\* named by a transaction.created event is not found in the durable store,
\* HandleTransactionEvent returns an error, the entry is not acknowledged, and no
\* balance is written, no idempotency marker is written, no cache entry is written
\* and no balance.updated event is published.
C22_MissingAccountHardError ==
    [][(cpc = "get" /\ ~Visible(txStream[Head(batch)].accountNumber) /\ HandlerStep) =>
          /\ result'[Head(batch)] = "err"
          /\ Head(batch) \in pending'
          /\ cpc' \in {"loop", "process"}
          /\ accounts' = accounts
          /\ applied' = applied
          /\ processed' = processed
          /\ cache' = cache
          /\ accountStream' = accountStream]_vars

\* The event of an account that never existed has been handled: error returned,
\* entry pending, no row, no marker, no view, no balance.updated event.
C22_Witness ==
    /\ cpc = "loop"
    /\ \E j \in Entries :
          /\ IsTx(j)
          /\ result[j] = "err"
          /\ j \in pending
          /\ ~accounts[txStream[j].accountNumber].exists
          /\ txStream[j].transactionId \notin processed
          /\ applied[txStream[j].transactionId] = 0
          /\ ~cache[txStream[j].accountNumber].present
          /\ \A k \in 1..Len(accountStream) :
                ~(accountStream[k].type = BalanceUpdated
                    /\ accountStream[k].accountNumber = txStream[j].accountNumber)

(* ---------------- C23 ---------------- *)

\* C23: the projector mutates only the balance.  Handling a transaction.created
\* event changes no attribute of the target account's durable record other than
\* its balance.
C23_OnlyBalance ==
    [][(Handling /\ HandlerStep) =>
          LET n == txStream[Head(batch)].accountNumber
          IN  [accounts'[n] EXCEPT !.balance = accounts[n].balance] = accounts[n]]_vars

(* ---------------- C24 ---------------- *)

\* The account command takes a step.
CommandStep == <<wpc, wresp>>' # <<wpc, wresp>>

\* The event a step appends to account.events.
Appended == accountStream'[Len(accountStream')]

\* One step of an account command: the store write comes before the cache call,
\* the cache call before the publish, and a rejected command changes nothing.
C24_Step ==
    \* the cache is refreshed (the view deleted) only after the committed write
    /\ (wpc' = "uCache" /\ CommandStep) =>
          /\ wpc = "uReget"
          /\ accounts[wcmd.accountNumber].name = wcmd.name
          /\ accounts[wcmd.accountNumber].accountType = wcmd.accountType
    /\ (wpc' = "dInvalidate" /\ CommandStep) =>
          (wpc = "dDelete" /\ accounts'[wcmd.accountNumber].deleted)
    \* the publish is reached only through the cache call
    /\ (wpc' = "uPublish" /\ CommandStep) =>
          /\ wpc = "uCache"
          /\ redisUp => cache' = CacheAccountView(cache, accountToView(wacct))
    /\ (wpc' = "dPublish" /\ CommandStep) =>
          /\ wpc = "dInvalidate"
          /\ redisUp => ~cache'[wcmd.accountNumber].present
    \* an event is appended only by the publish of a committed command
    /\ (Len(accountStream') > Len(accountStream)) =>
          /\ Appended.type = AccountUpdated => (wpc = "uPublish" /\ Committed)
          /\ Appended.type = AccountDeleted => (wpc = "dPublish" /\ Committed)
          /\ Appended.type = AccountCreated =>
                /\ ~accounts[Appended.accountNumber].exists
                /\ accounts'[Appended.accountNumber].exists
                /\ cache'[Appended.accountNumber].present
    \* a rejected command touches neither the store, nor the cache, nor the log
    /\ (CommandStep /\ wpc' = "idle" /\ wresp' \in {"forbidden", "account not found"}) =>
          /\ accounts' = accounts
          /\ cache' = cache
          /\ accountStream' = accountStream

RECURSIVE ProjectAll(_, _, _)
\* The balance of account n after HandleTransactionEvent has handled the entries
\* of order (a sequence of entry ids) once each, starting from balance b: an
\* event whose UpdateBalance is refused leaves the balance as it is.
ProjectAll(n, b, order) ==
    IF order = <<>> THEN b
    ELSE LET nb == NewBalance(b, txStream[Head(order)])
         IN  ProjectAll(n, IF UpdateBalanceOk(n, nb) THEN nb ELSE b, Tail(order))

\* Every entry carries an event of account n, and each has been handled once.
AllHandledOnce(n) ==
    /\ cpc = "loop"
    /\ Visible(n)
    /\ \A i \in Entries :
          /\ IsTx(i)
          /\ txStream[i].accountNumber = n
          /\ delivered[i] = 1
          /\ Completed(i)

\* C25: order-independence of projection.  For any finite set of
\* transaction.created events on one account, each handled once, the final
\* durable balance is the same whatever order the events are handled in: it is
\* the balance that handling them in any other order gives.
C25_OrderIndependent ==
    \A n \in AccountNumbers :
        AllHandledOnce(n) =>
            \A p \in Permutations(Entries) :
                accounts[n].balance = ProjectAll(n, 0, [i \in Entries |-> p[i]])

(* ---------------- C26 ---------------- *)

\* C26: acknowledge errors are retried.  When acknowledging an entry fails after
\* its handler succeeded, the consumer retries the acknowledgement, so that with a
\* store that eventually answers (from some point on Redis answers every command)
\* the entry is eventually acknowledged and does not stay pending forever.
C26_AckRetried ==
    (<>[]redisUp) =>
        \A i \in 1..MaxEntries :
            (i \in Entries /\ result[i] = "ok" /\ i \in pending) ~> (i \notin pending)

(* ---------------- C27 ---------------- *)

\* HandleTransactionEvent has applied a delta to account n and returned.
Projected(n) ==
    \E i \in Entries :
        /\ IsTx(i)
        /\ txStream[i].accountNumber = n
        /\ result[i] = "ok"
        /\ applied[txStream[i].transactionId] >= 1

\* C27: the projector leaves the cache matching the store.  Once
\* HandleTransactionEvent has finished applying a delta and no other operation on
\* the account is in flight, the cached account view equals the durable account
\* record (same balance, name and account type), including when an UpdateAccount
\* on the same account ran concurrently with the projection.
C27_CacheMatchesStore ==
    \A n \in AccountNumbers :
        (Projected(n) /\ Visible(n) /\ cpc = "loop" /\ wpc = "idle") =>
            /\ cache[n].present
            /\ cache[n].balance = accounts[n].balance
            /\ cache[n].name = accounts[n].name
            /\ cache[n].accountType = accounts[n].accountType

(* ---------------- C28 ---------------- *)

\* Entries i and j carry different transactions of account n; each was handled
\* once, by either instance, and both handlers returned success.
BothSucceeded(n, i, j) ==
    /\ IsTx(i) /\ IsTx(j)
    /\ txStream[i].transactionId # txStream[j].transactionId
    /\ txStream[i].accountNumber = n /\ txStream[j].accountNumber = n
    /\ result[i] = "ok" /\ result[j] = "ok"
    /\ delivered[i] = 1 /\ delivered[j] = 1
    /\ applied[txStream[i].transactionId] = 1
    /\ applied[txStream[j].transactionId] = 1

\* C28: no lost update with two consumers.  When two consumer instances of the
\* same group handle two different transaction.created events for the same
\* account concurrently and both handlers return success, the final durable
\* balance equals the initial balance (0 at CreateAccount) plus the sum of both
\* deltas.
C28_NoLostUpdate ==
    \A n \in AccountNumbers : \A i, j \in Entries :
        (BothSucceeded(n, i, j) /\ Len(txStream) = 2 /\ cpc = "loop" /\ pcpc = "loop") =>
            accounts[n].balance = Delta(txStream[i]) + Delta(txStream[j])

(* ---------------- C29 ---------------- *)

\* C29: an existing marker always blocks re-application.  If the idempotency
\* marker for a transaction id exists, HandleTransactionEvent never changes the
\* balance for that id (no step applies its delta again), including when the
\* marker lookup itself fails with a store error.
C29_MarkerBlocks ==
    [][\A t \in processed : applied'[t] = applied[t]]_vars

(* ---------------- C30 ---------------- *)

\* The accounts of user u that are not deleted.
ActiveAccounts(u) == {n \in AccountNumbers : Visible(n) /\ accounts[n].userID = u}

\* Every event published on account.events has been handled by the user service,
\* and no account command is between its store write and its publish.
AllAccountEventsHandled == ucursor = Len(accountStream) /\ wpc = "idle"

\* C30: the active-account counter tracks the accounts.  Once every
\* account.created and account.deleted event published for a user has been
\* handled by HandleAccountEvent, that user's counter equals the number of the
\* user's non-deleted accounts and is never below zero, including when an event
\* is delivered more than once under at-least-once delivery.
C30_CounterTracksAccounts ==
    \A u \in UserIDs :
        /\ accCount[u] >= 0
        /\ AllAccountEventsHandled => accCount[u] = Cardinality(ActiveAccounts(u))

====
